---------------------------- MODULE Spec2Model ----------------------------
(***************************************************************************)
(* A model of allauth/mfa/forms.py: the MFA forms of django-allauth.       *)
(*                                                                         *)
(*   AuthenticateForm          code based sign-in (TOTP, recovery codes)   *)
(*   ActivateTOTPForm          TOTP enrollment                             *)
(*   AuthenticateWebAuthnForm  WebAuthn sign-in                            *)
(*   AddWebAuthnForm           WebAuthn registration                       *)
(*                                                                         *)
(* The collaborators the forms call (allauth.core.ratelimit, totp,         *)
(* webauthn, django.core.signing.Signer, the Authenticator table) are not  *)
(* part of forms.py; they are modelled from their contract in spec.md.     *)
(***************************************************************************)
EXTENDS Integers, Sequences, FiniteSets, TLC

VARIABLES
    limit,      \* the rate limiter's amount for action "login_failed"
    budget,     \* rate-limit key -> units left in the current window
    store,      \* the Authenticator table, in the order a query iterates it
    emails,     \* the EmailAddress table: user -> the verified flag of each address
    pending,    \* the TOTP secret pending in the session (0: none)
    generated,  \* how many TOTP secrets have been generated so far
    form,       \* the ActivateTOTPForm instance under validation
    challenges, \* the WebAuthn challenges issued: the n-th is nonce n, with its flow and user
    verified,   \* history: the nonces whose token a valid WebAuthn form was cleaned with
    procs,      \* the concurrent authenticate calls: call -> where it is in clean_code
    streak,     \* history: key -> authenticate calls since the budget was last full
    last        \* history: the most recent operation and what it did

vars == <<limit, budget, store, emails, pending, generated, form,
          challenges, verified, procs, streak, last>>

authVars == <<limit, budget, store, streak>>
totpVars == <<emails, pending, generated, form>>
webVars == <<challenges, verified>>
callVars == <<procs>>

(***************************************************************************)
(* Bounds of the model.                                                    *)
(***************************************************************************)
MaxBudget == 3      \* the largest rate-limit amount tried
MaxAuths == 2       \* the largest number of rows of the Authenticator table
MaxSecrets == 3     \* the largest number of TOTP secrets generated in a run
MaxForms == 3       \* the largest number of WebAuthn forms constructed in a run
MaxCalls == 3       \* the largest number of concurrent authenticate calls

Users == {"alice", "bob"}
Types == {"totp", "recovery_codes", "webauthn"}
WEBAUTHN == "webauthn"
Secrets == 1 .. 2
Codes == 0 .. 3     \* the non-empty values of the form's code field

Min(a, b) == IF a < b THEN a ELSE b

(***************************************************************************)
(* allauth.core.ratelimit, from spec.md 4.2: consume takes one unit of     *)
(* the key's budget and is refused once none is left; clear gives the      *)
(* whole budget back.                                                      *)
(***************************************************************************)
\* Mutant of RateKey: the key leaves the user's pk out.
RateKey_shared(user) == <<"mfa-auth-user", "alice">>

\* key = f"mfa-auth-user-{str(self.user.pk)}"
RateKey(user) == <<"mfa-auth-user", user>>

Keys == {RateKey(u) : u \in Users}

consume(b, key) ==
    IF b[key] > 0
    THEN [allowed |-> TRUE, budget |-> [b EXCEPT ![key] = @ - 1]]
    ELSE [allowed |-> FALSE, budget |-> b]

clear(b, key, lim) == [b EXCEPT ![key] = lim]

(***************************************************************************)
(* allauth.mfa.totp and recovery codes, from spec.md 4.3: a TOTP code is   *)
(* accepted when it is the code of the current time step or of the step    *)
(* before or after it. The clock is held at one instant.                   *)
(***************************************************************************)
code_for(secret, step) == (secret + step) % 4

validate_totp_code(secret, code) ==
    \E step \in {-1, 0, 1} : code_for(secret, step) = code

validate_code(auth, code) ==
    IF auth.type = "totp"
    THEN validate_totp_code(auth.secret, code)
    ELSE code = (3 * auth.secret) % 4

(***************************************************************************)
(* The Authenticator table.                                                *)
(***************************************************************************)
\* One seed per type is enough for codes that one row accepts and another
\* refuses: a TOTP row accepts 0, 1, 2 and a recovery codes row accepts 2.
Authenticator ==
    {a \in [user : Users, type : Types, secret : Secrets] :
        a.secret = (IF a.type = "recovery_codes" THEN 2 ELSE 1)}

Stores == UNION {[1 .. n -> Authenticator] : n \in 0 .. MaxAuths}

\* Mutant of FilterExclude: the WebAuthn rows are not excluded.
RECURSIVE FilterExclude_no_exclude(_, _, _)
FilterExclude_no_exclude(st, user, i) ==
    IF i > Len(st) THEN <<>>
    ELSE IF st[i].user = user
         THEN <<i>> \o FilterExclude_no_exclude(st, user, i + 1)
         ELSE FilterExclude_no_exclude(st, user, i + 1)

\* Authenticator.objects.filter(user=user).exclude(type=WEBAUTHN): the rows
\* (by position in the table) in the table's order.
RECURSIVE FilterExclude(_, _, _)
FilterExclude(st, user, i) ==
    IF i > Len(st) THEN <<>>
    ELSE IF st[i].user = user /\ st[i].type # WEBAUTHN
         THEN <<i>> \o FilterExclude(st, user, i + 1)
         ELSE FilterExclude(st, user, i + 1)

\* The for loop of clean_code: validate_code on each row in turn, stopping
\* at the first that accepts. evaluated: the rows validate_code was called on.
RECURSIVE Scan(_, _, _, _)
Scan(st, rows, code, evaluated) ==
    IF rows = <<>> THEN [authenticator |-> 0, evaluated |-> evaluated]
    ELSE IF validate_code(st[Head(rows)], code)
         THEN [authenticator |-> Head(rows),
               evaluated |-> evaluated \cup {Head(rows)}]
         ELSE Scan(st, Tail(rows), code, evaluated \cup {Head(rows)})

(***************************************************************************)
(* AuthenticateForm.clean_code. The code field is required, so clean_code  *)
(* runs on a non-empty code.                                               *)
(***************************************************************************)
\* Mutants of clean_code: the table is read before the rate limit is asked;
\* a refused code gives its unit back; the budget is not cleared on success;
\* consume is called a second time when the code is wrong.
AuthenticateForm_clean_code_late_limit(b, lim, st, user, code) ==
    LET key == RateKey(user)
        c == consume(b, key)
        s == Scan(st, FilterExclude(st, user, 1), code, {})
    IN  IF ~c.allowed
        THEN [result |-> "TooManyAttempts", allowed |-> FALSE, authenticator |-> 0,
              budget |-> c.budget, lookups |-> 1, evaluated |-> s.evaluated]
        ELSE IF s.authenticator # 0
             THEN [result |-> "Success", allowed |-> TRUE,
                   authenticator |-> s.authenticator,
                   budget |-> clear(c.budget, key, lim),
                   lookups |-> 1, evaluated |-> s.evaluated]
             ELSE [result |-> "IncorrectCode", allowed |-> TRUE, authenticator |-> 0,
                   budget |-> c.budget,
                   lookups |-> 1, evaluated |-> s.evaluated]

AuthenticateForm_clean_code_refund(b, lim, st, user, code) ==
    LET key == RateKey(user)
        c == consume(b, key)
    IN  IF ~c.allowed
        THEN [result |-> "TooManyAttempts", allowed |-> FALSE, authenticator |-> 0,
              budget |-> c.budget, lookups |-> 0, evaluated |-> {}]
        ELSE LET s == Scan(st, FilterExclude(st, user, 1), code, {})
             IN  IF s.authenticator # 0
                 THEN [result |-> "Success", allowed |-> TRUE,
                       authenticator |-> s.authenticator,
                       budget |-> clear(c.budget, key, lim),
                       lookups |-> 1, evaluated |-> s.evaluated]
                 ELSE [result |-> "IncorrectCode", allowed |-> TRUE,
                       authenticator |-> 0, budget |-> b,
                       lookups |-> 1, evaluated |-> s.evaluated]

AuthenticateForm_clean_code_no_clear(b, lim, st, user, code) ==
    LET key == RateKey(user)
        c == consume(b, key)
    IN  IF ~c.allowed
        THEN [result |-> "TooManyAttempts", allowed |-> FALSE, authenticator |-> 0,
              budget |-> c.budget, lookups |-> 0, evaluated |-> {}]
        ELSE LET s == Scan(st, FilterExclude(st, user, 1), code, {})
             IN  IF s.authenticator # 0
                 THEN [result |-> "Success", allowed |-> TRUE,
                       authenticator |-> s.authenticator,
                       budget |-> c.budget,
                       lookups |-> 1, evaluated |-> s.evaluated]
                 ELSE [result |-> "IncorrectCode", allowed |-> TRUE,
                       authenticator |-> 0, budget |-> c.budget,
                       lookups |-> 1, evaluated |-> s.evaluated]

AuthenticateForm_clean_code_twice(b, lim, st, user, code) ==
    LET key == RateKey(user)
        c == consume(b, key)
    IN  IF ~c.allowed
        THEN [result |-> "TooManyAttempts", allowed |-> FALSE, authenticator |-> 0,
              budget |-> c.budget, lookups |-> 0, evaluated |-> {}]
        ELSE LET s == Scan(st, FilterExclude(st, user, 1), code, {})
             IN  IF s.authenticator # 0
                 THEN [result |-> "Success", allowed |-> TRUE,
                       authenticator |-> s.authenticator,
                       budget |-> clear(c.budget, key, lim),
                       lookups |-> 1, evaluated |-> s.evaluated]
                 ELSE [result |-> "IncorrectCode", allowed |-> TRUE,
                       authenticator |-> 0,
                       budget |-> consume(c.budget, key).budget,
                       lookups |-> 1, evaluated |-> s.evaluated]

\* Mutant of clean_code: two units are asked of the limiter at the gate.
AuthenticateForm_clean_code_double_gate(b, lim, st, user, code) ==
    LET key == RateKey(user)
        c == consume(b, key)
        d == consume(c.budget, key)
    IN  IF ~c.allowed \/ ~d.allowed
        THEN [result |-> "TooManyAttempts", allowed |-> FALSE, authenticator |-> 0,
              budget |-> d.budget, lookups |-> 0, evaluated |-> {}]
        ELSE LET s == Scan(st, FilterExclude(st, user, 1), code, {})
             IN  IF s.authenticator # 0
                 THEN [result |-> "Success", allowed |-> TRUE,
                       authenticator |-> s.authenticator,
                       budget |-> clear(d.budget, key, lim),
                       lookups |-> 1, evaluated |-> s.evaluated]
                 ELSE [result |-> "IncorrectCode", allowed |-> TRUE,
                       authenticator |-> 0, budget |-> d.budget,
                       lookups |-> 1, evaluated |-> s.evaluated]

AuthenticateForm_clean_code(b, lim, st, user, code) ==
    LET key == RateKey(user)
        c == consume(b, key)
    IN  IF ~c.allowed
        THEN [result |-> "TooManyAttempts", allowed |-> FALSE, authenticator |-> 0,
              budget |-> c.budget, lookups |-> 0, evaluated |-> {}]
        ELSE LET s == Scan(st, FilterExclude(st, user, 1), code, {})
             IN  IF s.authenticator # 0
                 THEN [result |-> "Success", allowed |-> TRUE,
                       authenticator |-> s.authenticator,
                       budget |-> clear(c.budget, key, lim),
                       lookups |-> 1, evaluated |-> s.evaluated]
                 ELSE [result |-> "IncorrectCode", allowed |-> TRUE,
                       authenticator |-> 0, budget |-> c.budget,
                       lookups |-> 1, evaluated |-> s.evaluated]

(***************************************************************************)
(* clean_code in the two steps that concurrent calls interleave at: the    *)
(* backend's consume, and the evaluation of the authenticators with the    *)
(* backend's clear at its end. The Authenticator table is only read.       *)
(***************************************************************************)
\* Mutant of clean_code_enter: the answer of consume is not acted on.
AuthenticateForm_clean_code_enter_deaf(b, user) ==
    [allowed |-> TRUE, result |-> "", budget |-> consume(b, RateKey(user)).budget]

AuthenticateForm_clean_code_enter(b, user) ==
    LET c == consume(b, RateKey(user))
    IN  [allowed |-> c.allowed,
         result |-> IF c.allowed THEN "" ELSE "TooManyAttempts",
         budget |-> c.budget]

AuthenticateForm_clean_code_evaluate(b, lim, st, user, code) ==
    LET s == Scan(st, FilterExclude(st, user, 1), code, {})
    IN  IF s.authenticator # 0
        THEN [result |-> "Success", authenticator |-> s.authenticator,
              budget |-> clear(b, RateKey(user), lim)]
        ELSE [result |-> "IncorrectCode", authenticator |-> 0, budget |-> b]

(***************************************************************************)
(* allauth.mfa.totp.get_totp_secret, from spec.md 4.3: a new random secret *)
(* when regenerate is set or the session holds none, the pending one       *)
(* otherwise. A new secret differs from every earlier one: the n-th        *)
(* generated secret is n.                                                  *)
(***************************************************************************)
get_totp_secret(pend, gen, regenerate) ==
    IF regenerate \/ pend = 0
    THEN [secret |-> gen + 1, pending |-> gen + 1, generated |-> gen + 1]
    ELSE [secret |-> pend, pending |-> pend, generated |-> gen]

(***************************************************************************)
(* ActivateTOTPForm.                                                       *)
(***************************************************************************)
EmailRows == {<<>>, <<TRUE>>, <<FALSE>>, <<TRUE, FALSE>>}

\* Mutant of has_unverified: the query asks for a verified address instead.
has_unverified_none_verified(em, user) ==
    ~\E i \in DOMAIN em[user] : em[user][i] = TRUE

\* EmailAddress.objects.filter(user=user, verified=False).exists()
has_unverified(em, user) == \E i \in DOMAIN em[user] : em[user][i] = FALSE

\* Mutant of __init__: the bound form regenerates the secret as well.
ActivateTOTPForm_init_regenerate(em, pend, gen, user, is_bound) ==
    LET g == get_totp_secret(pend, gen, TRUE)
    IN  [form |-> [user |-> user, is_bound |-> is_bound,
                   email_verified |-> ~has_unverified(em, user),
                   secret |-> g.secret, cleaned |-> FALSE],
         pending |-> g.pending, generated |-> g.generated]

ActivateTOTPForm_init(em, pend, gen, user, is_bound) ==
    LET g == get_totp_secret(pend, gen, ~is_bound)
    IN  [form |-> [user |-> user, is_bound |-> is_bound,
                   email_verified |-> ~has_unverified(em, user),
                   secret |-> g.secret, cleaned |-> FALSE],
         pending |-> g.pending, generated |-> g.generated]

\* Mutant of clean_code: only a wrong code regenerates the secret.
ActivateTOTPForm_clean_code_keep(f, pend, gen, code) ==
    LET failure ==
            IF ~f.email_verified THEN "UnverifiedEmail"
            ELSE IF ~validate_totp_code(f.secret, code) THEN "IncorrectCode"
            ELSE "Success"
        g == get_totp_secret(pend, gen, TRUE)
    IN  IF failure # "IncorrectCode"
        THEN [result |-> failure, secret |-> f.secret,
              pending |-> pend, generated |-> gen]
        ELSE [result |-> failure, secret |-> g.secret,
              pending |-> g.pending, generated |-> g.generated]

ActivateTOTPForm_clean_code(f, pend, gen, code) ==
    LET failure ==
            IF ~f.email_verified THEN "UnverifiedEmail"
            ELSE IF ~validate_totp_code(f.secret, code) THEN "IncorrectCode"
            ELSE "Success"
        g == get_totp_secret(pend, gen, TRUE)
    IN  IF failure = "Success"
        THEN [result |-> "Success", secret |-> f.secret,
              pending |-> pend, generated |-> gen]
        ELSE [result |-> failure, secret |-> g.secret,
              pending |-> g.pending, generated |-> g.generated]

(***************************************************************************)
(* django.core.signing.Signer and json, from spec.md 4.1. A token is a     *)
(* value and a signature joined by a separator; the signature is a keyed   *)
(* MAC of the value, which only the server computes and which differs for  *)
(* different values. json.dumps writes a state as its key/value pairs.     *)
(***************************************************************************)
json_dumps(state) == <<<<"challenge", state.challenge>>>>
json_loads(value) == [challenge |-> value[1][2]]

signature(value) == <<"hmac", value>>

Signer_sign(value) == [sep |-> TRUE, value |-> value, sig |-> signature(value)]

\* bad: BadSignature is raised.
Signer_unsign(tok) ==
    IF tok.sep /\ tok.sig = signature(tok.value)
    THEN [bad |-> FALSE, value |-> tok.value]
    ELSE [bad |-> TRUE, value |-> <<>>]

NoState == [challenge |-> 0]
ChallengeStates(n) == [challenge : 1 .. n]

\* The signed_state values a client can post after n challenges were issued:
\* nothing, a token it was handed, or such a token with its value or its
\* signature replaced.
EmptyToken == [sep |-> FALSE, value |-> <<>>, sig |-> <<>>]
Tokens(n) ==
    {EmptyToken} \cup
    [sep : {TRUE},
     value : {json_dumps(st) : st \in ChallengeStates(n)},
     sig : {signature(json_dumps(st)) : st \in ChallengeStates(n)} \cup {<<"forged">>}]

(***************************************************************************)
(* allauth.mfa.webauthn, from spec.md 4.4 and 6. A posted credential is    *)
(* missing, not JSON, or JSON that parses into the challenge the device    *)
(* answered, the credential id, the device's user-verified flag and        *)
(* whether its signature (and counter) stand up to the verifier.           *)
(***************************************************************************)
Credentials(n) ==
    [kind : {"missing", "notjson"}, challenge : {0}, cred_id : {0},
     ok : {FALSE}, user_verified : {FALSE}]
    \cup [kind : {"json"}, challenge : 1 .. n, cred_id : Secrets,
          ok : BOOLEAN, user_verified : BOOLEAN]

\* get_credentials(user): the credential ids of the user's WebAuthn rows.
get_credentials(st, user) ==
    {st[i].secret : i \in {j \in DOMAIN st :
                              st[j].user = user /\ st[j].type = WEBAUTHN}}

begin_authentication(issued, user) ==
    [state |-> [challenge |-> Len(issued) + 1],
     issued |-> Append(issued, [flow |-> "authentication", user |-> user])]

begin_registration(issued) ==
    [state |-> [challenge |-> Len(issued) + 1],
     issued |-> Append(issued, [flow |-> "registration", user |-> "anyone"])]

\* data: the authenticator data (0: the verifier refused).
complete_authentication(state, credentials, credential) ==
    IF /\ credential.challenge = state.challenge
       /\ credential.cred_id \in credentials
       /\ credential.ok
    THEN [data |-> credential.cred_id]
    ELSE [data |-> 0]

complete_registration(state, credential) ==
    IF credential.challenge = state.challenge /\ credential.ok
    THEN [data |-> credential.cred_id]
    ELSE [data |-> 0]

(***************************************************************************)
(* AuthenticateWebAuthnForm and AddWebAuthnForm. Django cleans the fields  *)
(* in the order they are declared, a field's clean_<name> after the field  *)
(* itself, and drops a field whose cleaning raised ValidationError from    *)
(* cleaned_data; then it calls clean(). Any other exception leaves         *)
(* is_valid() as a fault.                                                  *)
(***************************************************************************)
\* Mutant of clean_signed_state: the value is read without its signature
\* being checked.
AuthenticateWebAuthnForm_clean_signed_state_unchecked(tok) ==
    IF ~tok.sep
    THEN [error |-> "Tampered", state |-> NoState]
    ELSE [error |-> "", state |-> json_loads(tok.value)]

\* signed_state is not required: an empty value reaches clean_signed_state.
AuthenticateWebAuthnForm_clean_signed_state(tok) ==
    LET u == Signer_unsign(tok)
    IN  IF u.bad
        THEN [error |-> "Tampered", state |-> NoState]
        ELSE [error |-> "", state |-> json_loads(u.value)]

\* credential is required; json.loads raises on what is not JSON.
AuthenticateWebAuthnForm_clean_credential(cred) ==
    IF cred.kind = "missing" THEN [error |-> "Required", fault |-> "", present |-> FALSE]
    ELSE IF cred.kind = "notjson"
         THEN [error |-> "", fault |-> "JSONDecodeError", present |-> FALSE]
         ELSE [error |-> "", fault |-> "", present |-> TRUE]

\* present: cleaned_data holds the credential; state: cleaned_data's
\* signed_state (NoState: none).
AuthenticateWebAuthnForm_clean(st, user, state, present, cred) ==
    IF ~present
    THEN [fault |-> "KeyError", error |-> "", called |-> FALSE, data |-> 0]
    ELSE IF state # NoState
         THEN LET c == complete_authentication(state, get_credentials(st, user), cred)
              IN  [fault |-> "", called |-> TRUE, data |-> c.data,
                   error |-> IF c.data = 0 THEN "CredentialVerificationFailed" ELSE ""]
         ELSE [fault |-> "", error |-> "", called |-> FALSE, data |-> 0]

Errors(S) == S \ {""}

AuthenticateWebAuthnForm_full_clean(st, user, tok, cred) ==
    LET s == AuthenticateWebAuthnForm_clean_signed_state(tok)
        c == AuthenticateWebAuthnForm_clean_credential(cred)
        f == AuthenticateWebAuthnForm_clean(st, user, s.state, c.present, cred)
    IN  IF c.fault # ""
        THEN [fault |-> c.fault, errors |-> Errors({s.error}), state |-> s.state,
              called |-> FALSE, data |-> 0]
        ELSE [fault |-> f.fault, errors |-> Errors({s.error, c.error, f.error}),
              state |-> s.state, called |-> f.called, data |-> f.data]

\* Mutant of clean_signed_state: BadSignature is swallowed and the value read.
AddWebAuthnForm_clean_signed_state_swallow(tok) ==
    IF tok = EmptyToken
    THEN [error |-> "Required", state |-> NoState]
    ELSE [error |-> "", state |-> json_loads(tok.value)]

\* signed_state is required: an empty value never reaches clean_signed_state.
AddWebAuthnForm_clean_signed_state(tok) ==
    LET u == Signer_unsign(tok)
    IN  IF tok = EmptyToken
        THEN [error |-> "Required", state |-> NoState]
        ELSE IF u.bad
             THEN [error |-> "Tampered", state |-> NoState]
             ELSE [error |-> "", state |-> json_loads(u.value)]

AddWebAuthnForm_clean_credential(cred) ==
    IF cred.kind = "missing" THEN [error |-> "Required", fault |-> "", present |-> FALSE]
    ELSE IF cred.kind = "notjson"
         THEN [error |-> "", fault |-> "JSONDecodeError", present |-> FALSE]
         ELSE [error |-> "", fault |-> "", present |-> TRUE]

\* Mutant of clean: the user-verified flag is not looked at.
AddWebAuthnForm_clean_no_policy(state, present, cred, passwordless) ==
    IF present /\ state # NoState
    THEN LET c == complete_registration(state, cred)
         IN  [called |-> TRUE, data |-> c.data,
              errors |-> Errors({IF c.data = 0
                                 THEN "CredentialVerificationFailed" ELSE ""})]
    ELSE [called |-> FALSE, data |-> 0, errors |-> {}]

AddWebAuthnForm_clean(state, present, cred, passwordless) ==
    LET policy ==
            IF present /\ passwordless /\ ~cred.user_verified
            THEN "PasswordlessUnsupported" ELSE ""
    IN  IF present /\ state # NoState
        THEN LET c == complete_registration(state, cred)
             IN  [called |-> TRUE, data |-> c.data,
                  errors |-> Errors({policy,
                                     IF c.data = 0
                                     THEN "CredentialVerificationFailed" ELSE ""})]
        ELSE [called |-> FALSE, data |-> 0, errors |-> Errors({policy})]

\* The fields are declared name, passwordless, credential, signed_state.
AddWebAuthnForm_full_clean(tok, cred, passwordless) ==
    LET c == AddWebAuthnForm_clean_credential(cred)
        s == AddWebAuthnForm_clean_signed_state(tok)
        f == AddWebAuthnForm_clean(s.state, c.present, cred, passwordless)
    IN  IF c.fault # ""
        THEN [fault |-> c.fault, errors |-> {}, state |-> NoState,
              called |-> FALSE, data |-> 0]
        ELSE [fault |-> "", errors |-> Errors({s.error, c.error}) \cup f.errors,
              state |-> s.state, called |-> f.called, data |-> f.data]

IsValid(r) == r.fault = "" /\ r.errors = {}

NoOp == [op |-> "none"]
NoForm == [is_bound |-> FALSE, cleaned |-> TRUE, user |-> "nobody"]

Idle == [pc |-> "idle", user |-> "nobody", result |-> ""]

InitAuth ==
    /\ limit \in 1 .. MaxBudget
    /\ procs = [p \in 1 .. MaxCalls |-> Idle]
    /\ budget = [k \in Keys |-> limit]
    /\ streak = [k \in Keys |-> 0]
    /\ last = NoOp

InitTotp ==
    /\ pending = 0
    /\ generated = 0
    /\ form = NoForm

InitWeb ==
    /\ challenges = <<>>
    /\ verified = {}

\* Sign-in with a code: any Authenticator table, nobody enrolling.
Init ==
    /\ InitAuth
    /\ InitTotp
    /\ InitWeb
    /\ store \in Stores
    /\ emails = [u \in Users |-> <<>>]

Authenticate(user, code) ==
    LET key == RateKey(user)
        r == AuthenticateForm_clean_code(budget, limit, store, user, code)
    IN  /\ budget' = r.budget
        /\ streak' = [streak EXCEPT ![key] =
                         IF r.result = "Success" THEN 0 ELSE Min(@ + 1, limit + 1)]
        /\ last' = [op |-> "authenticate", user |-> user, code |-> code,
                    before |-> budget[key], allowed |-> r.allowed,
                    result |-> r.result,
                    authenticator |-> r.authenticator,
                    lookups |-> r.lookups, evaluated |-> r.evaluated]
        /\ UNCHANGED <<limit, store>>
        /\ UNCHANGED <<totpVars, webVars, callVars>>

\* The rate limiter's window runs out: the key's budget is full again.
WindowReset(key) ==
    /\ budget[key] < limit
    /\ budget' = [budget EXCEPT ![key] = limit]
    /\ streak' = [streak EXCEPT ![key] = 0]
    /\ last' = [op |-> "window_reset", key |-> key]
    /\ UNCHANGED <<limit, store>>
    /\ UNCHANGED <<totpVars, webVars, callVars>>

\* A concurrent authenticate call for the user reaches consume.
CallEnter(p, user) ==
    LET r == AuthenticateForm_clean_code_enter(budget, user)
    IN  /\ procs[p].pc = "idle"
        /\ budget' = r.budget
        /\ streak' = [streak EXCEPT ![RateKey(user)] = Min(@ + 1, limit + 1)]
        /\ procs' = [procs EXCEPT ![p] =
                        [pc |-> IF r.allowed THEN "evaluate" ELSE "done",
                         user |-> user, result |-> r.result]]
        /\ UNCHANGED <<limit, store, last>>
        /\ UNCHANGED <<totpVars, webVars>>

\* A call that consume let through evaluates the authenticators on its code.
CallEvaluate(p, code) ==
    LET user == procs[p].user
        r == AuthenticateForm_clean_code_evaluate(budget, limit, store, user, code)
    IN  /\ procs[p].pc = "evaluate"
        /\ budget' = r.budget
        /\ streak' = [streak EXCEPT ![RateKey(user)] =
                         IF r.result = "Success" THEN 0 ELSE @]
        /\ procs' = [procs EXCEPT ![p] =
                        [pc |-> "done", user |-> user, result |-> r.result]]
        /\ UNCHANGED <<limit, store, last>>
        /\ UNCHANGED <<totpVars, webVars>>

\* A view constructs ActivateTOTPForm(user=user), unbound (GET) or bound (POST).
ActivateInit(user, is_bound) ==
    LET r == ActivateTOTPForm_init(emails, pending, generated, user, is_bound)
    IN  /\ generated < MaxSecrets
        /\ form' = r.form
        /\ pending' = r.pending
        /\ generated' = r.generated
        /\ last' = [op |-> "activate_init", user |-> user, is_bound |-> is_bound,
                    pending_before |-> pending]
        /\ UNCHANGED <<emails, authVars, webVars, callVars>>

\* is_valid() on the bound form runs clean_code, once.
ActivateCleanCode(code) ==
    LET r == ActivateTOTPForm_clean_code(form, pending, generated, code)
    IN  /\ form.is_bound /\ ~form.cleaned
        /\ generated < MaxSecrets
        /\ form' = [form EXCEPT !.secret = r.secret, !.cleaned = TRUE]
        /\ pending' = r.pending
        /\ generated' = r.generated
        /\ last' = [op |-> "activate_clean", user |-> form.user, code |-> code,
                    result |-> r.result, checked |-> form.secret,
                    pending_before |-> pending]
        /\ UNCHANGED <<emails, authVars, webVars, callVars>>

\* A request is sent when the response of the one before was read, and
\* constructs a form.
CanRequest == last = NoOp /\ Len(challenges) < MaxForms

\* A view constructs an unbound WebAuthn form (GET): __init__ issues a
\* challenge and signs its state into the form's initial signed_state.
WebAuthnGet(flow, user) ==
    LET b == IF flow = "authentication"
             THEN begin_authentication(challenges, user)
             ELSE begin_registration(challenges)
    IN  /\ CanRequest
        /\ challenges' = b.issued
        /\ last' = [op |-> "webauthn_get", flow |-> flow, user |-> user,
                    signed_state |-> Signer_sign(json_dumps(b.state))]
        /\ UNCHANGED <<verified, authVars, totpVars, callVars>>

\* Mutant of AuthenticateWebAuthnPost: a valid form gives the user's
\* budget back, as AuthenticateForm does.
AuthenticateWebAuthnPost_clears(user, tok, cred) ==
    LET b == begin_authentication(challenges, user)
        r == AuthenticateWebAuthnForm_full_clean(store, user, tok, cred)
    IN  /\ CanRequest
        /\ challenges' = b.issued
        /\ verified' = IF IsValid(r) THEN verified \cup {r.state.challenge}
                       ELSE verified
        /\ last' = [op |-> "webauthn_post", flow |-> "authentication",
                    user |-> user, token |-> tok, credential |-> cred,
                    passwordless |-> FALSE, fault |-> r.fault, errors |-> r.errors,
                    state |-> r.state, called |-> r.called, data |-> r.data,
                    reused |-> r.state.challenge \in verified]
        /\ budget' = IF IsValid(r) THEN clear(budget, RateKey(user), limit)
                     ELSE budget
        /\ UNCHANGED <<limit, store, streak, totpVars, callVars>>

\* Mutant of AuthenticateWebAuthnPost: the form verifies against the
\* challenge its own __init__ issued, not the posted signed_state.
AuthenticateWebAuthnPost_own_state(user, tok, cred) ==
    LET b == begin_authentication(challenges, user)
        r == AuthenticateWebAuthnForm_full_clean(
                 store, user, Signer_sign(json_dumps(b.state)), cred)
    IN  /\ CanRequest
        /\ challenges' = b.issued
        /\ verified' = IF IsValid(r) THEN verified \cup {r.state.challenge}
                       ELSE verified
        /\ last' = [op |-> "webauthn_post", flow |-> "authentication",
                    user |-> user, token |-> tok, credential |-> cred,
                    passwordless |-> FALSE, fault |-> r.fault, errors |-> r.errors,
                    state |-> r.state, called |-> r.called, data |-> r.data,
                    reused |-> r.state.challenge \in verified]
        /\ UNCHANGED <<authVars, totpVars, callVars>>

\* A view constructs AuthenticateWebAuthnForm(data, user=user) and calls
\* is_valid(): __init__ issues a challenge of its own, then the posted
\* signed_state and credential are cleaned.
AuthenticateWebAuthnPost(user, tok, cred) ==
    LET b == begin_authentication(challenges, user)
        r == AuthenticateWebAuthnForm_full_clean(store, user, tok, cred)
    IN  /\ CanRequest
        /\ challenges' = b.issued
        /\ verified' = IF IsValid(r) THEN verified \cup {r.state.challenge}
                       ELSE verified
        /\ last' = [op |-> "webauthn_post", flow |-> "authentication",
                    user |-> user, token |-> tok, credential |-> cred,
                    passwordless |-> FALSE, fault |-> r.fault, errors |-> r.errors,
                    state |-> r.state, called |-> r.called, data |-> r.data,
                    reused |-> r.state.challenge \in verified]
        /\ UNCHANGED <<authVars, totpVars, callVars>>

\* A view constructs AddWebAuthnForm(data, user=user) and calls is_valid().
AddWebAuthnPost(user, tok, cred, passwordless) ==
    LET b == begin_registration(challenges)
        r == AddWebAuthnForm_full_clean(tok, cred, passwordless)
    IN  /\ CanRequest
        /\ challenges' = b.issued
        /\ verified' = IF IsValid(r) THEN verified \cup {r.state.challenge}
                       ELSE verified
        /\ last' = [op |-> "webauthn_post", flow |-> "registration",
                    user |-> user, token |-> tok, credential |-> cred,
                    passwordless |-> passwordless, fault |-> r.fault,
                    errors |-> r.errors, state |-> r.state, called |-> r.called,
                    data |-> r.data, reused |-> r.state.challenge \in verified]
        /\ UNCHANGED <<authVars, totpVars, callVars>>

\* The client has the response of its request; it sends the next one after.
ReadResponse ==
    /\ last # NoOp
    /\ last' = NoOp
    /\ UNCHANGED <<webVars, authVars, totpVars, callVars>>

Next ==
    \/ \E u \in Users, code \in Codes : Authenticate(u, code)
    \/ \E k \in Keys : WindowReset(k)

Spec == Init /\ [][Next]_vars

\* TOTP enrollment next to sign-in with a code: any EmailAddress table, an
\* Authenticator table of at most one row, one unit of budget.
InitEnroll ==
    /\ InitAuth
    /\ InitTotp
    /\ InitWeb
    /\ limit = 1
    /\ store \in {s \in Stores : Len(s) <= 1}
    /\ emails \in [Users -> EmailRows]

NextEnroll ==
    \/ \E u \in Users, code \in Codes : Authenticate(u, code)
    \/ \E u \in Users, b \in BOOLEAN : ActivateInit(u, b)
    \/ \E code \in Codes : ActivateCleanCode(code)

SpecEnroll == InitEnroll /\ [][NextEnroll]_vars

\* The WebAuthn forms: one client after another request, an Authenticator
\* table of at most one row, a WebAuthn one, and one unit of budget.
InitWebAuthn ==
    /\ InitAuth
    /\ InitTotp
    /\ InitWeb
    /\ limit = 1
    /\ store \in {s \in Stores : Len(s) <= 1 /\ \A i \in DOMAIN s : s[i].type = WEBAUTHN}
    /\ emails = [u \in Users |-> <<>>]

NextWebAuthn ==
    \/ /\ CanRequest
       /\ \E f \in {"authentication", "registration"}, u \in Users : WebAuthnGet(f, u)
    \/ /\ CanRequest
       /\ \E u \in Users, tok \in Tokens(Len(challenges)),
             cred \in Credentials(Len(challenges)) :
               AuthenticateWebAuthnPost(u, tok, cred)
    \/ /\ CanRequest
       /\ \E u \in Users, tok \in Tokens(Len(challenges)),
             cred \in Credentials(Len(challenges)), pw \in BOOLEAN :
               AddWebAuthnPost(u, tok, cred, pw)
    \/ ReadResponse

SpecWebAuthn == InitWebAuthn /\ [][NextWebAuthn]_vars

\* Sign-in with a code while time passes: the window of a key whose budget
\* is not full runs out sooner or later, whatever else happens.
InitLive ==
    /\ InitAuth
    /\ InitTotp
    /\ InitWeb
    /\ store \in {s \in Stores : Len(s) <= 1}
    /\ emails = [u \in Users |-> <<>>]

SpecLive ==
    /\ InitLive
    /\ [][Next]_vars
    /\ \A k \in Keys : WF_vars(WindowReset(k))

\* The flows that take no code, for users who each failed one sign-in with
\* a code out of two allowed: a session runs the WebAuthn forms or enrolls
\* TOTP, and the two flows share no variable but last.
InitFrame ==
    /\ InitTotp
    /\ InitWeb
    /\ limit = 2
    /\ budget = [k \in Keys |-> 1]
    /\ streak = [k \in Keys |-> 1]
    /\ procs = [p \in 1 .. MaxCalls |-> Idle]
    /\ last = NoOp
    /\ store \in {s \in Stores : Len(s) <= 1 /\ \A i \in DOMAIN s : s[i].type = WEBAUTHN}
    /\ emails = [u \in Users |-> IF u = "alice" THEN <<TRUE>> ELSE <<TRUE, FALSE>>]

NoEnrollment == generated = 0 /\ form = NoForm

NextFrame ==
    \/ /\ CanRequest /\ NoEnrollment
       /\ \E f \in {"authentication", "registration"}, u \in Users : WebAuthnGet(f, u)
    \/ /\ CanRequest /\ NoEnrollment
       /\ \E u \in Users, tok \in Tokens(Len(challenges)),
             cred \in Credentials(Len(challenges)) :
               AuthenticateWebAuthnPost(u, tok, cred)
    \/ /\ CanRequest /\ NoEnrollment
       /\ \E u \in Users, tok \in Tokens(Len(challenges)),
             cred \in Credentials(Len(challenges)), pw \in BOOLEAN :
               AddWebAuthnPost(u, tok, cred, pw)
    \/ ReadResponse
    \/ /\ challenges = <<>>
       /\ \E u \in Users, b \in BOOLEAN : ActivateInit(u, b)
    \/ /\ challenges = <<>>
       /\ \E code \in Codes : ActivateCleanCode(code)

SpecFrame == InitFrame /\ [][NextFrame]_vars

\* Concurrent sign-in calls: each call is one consume step and one
\* evaluation step, interleaved with the steps of the other calls.
InitCalls ==
    /\ InitAuth
    /\ InitTotp
    /\ InitWeb
    /\ store \in {s \in Stores : Len(s) <= 1}
    /\ emails = [u \in Users |-> <<>>]

NextCalls ==
    \/ \E p \in 1 .. MaxCalls, u \in Users : CallEnter(p, u)
    \/ \E p \in 1 .. MaxCalls, code \in Codes : CallEvaluate(p, code)

SpecCalls == InitCalls /\ [][NextCalls]_vars

(***************************************************************************)
(* Properties of sign-in with a code (AuthenticateForm), under Spec.       *)
(***************************************************************************)
IsAuth == last.op = "authenticate"
LastKey == RateKey(last.user)

\* The rows of the user's that clean_code may try, and those accepting the code.
Candidates(user) ==
    {i \in DOMAIN store : store[i].user = user /\ store[i].type # WEBAUTHN}
Matching(user, code) ==
    {i \in Candidates(user) : validate_code(store[i], code)}
Lowest(S) == CHOOSE i \in S : \A j \in S : i <= j

\* C1: when consume refuses, clean_code answers TooManyAttempts and has
\* neither queried the Authenticator table nor called validate_code on any
\* row, whatever the code.
C1_DeniedTouchesNothing ==
    (IsAuth /\ ~last.allowed) =>
        /\ last.result = "TooManyAttempts"
        /\ last.lookups = 0
        /\ last.evaluated = {}
        /\ last.authenticator = 0

\* A refused call whose code a row of the user's would have accepted.
C1_Witness ==
    IsAuth /\ ~last.allowed /\ Matching(last.user, last.code) # {}

\* C2: counting the calls for a key since its budget was last full, with no
\* success among them: the first limit calls answer IncorrectCode, each
\* leaving the budget one lower than it found it, every later one answers
\* TooManyAttempts, and no unit comes back: the budget is the limit less the
\* units those calls took.
C2_FirstNThenDenied ==
    /\ \A k \in Keys : budget[k] = limit - Min(streak[k], limit)
    /\ (IsAuth /\ last.result # "Success") =>
          /\ streak[LastKey] >= 1
          /\ streak[LastKey] <= limit =>
                /\ last.result = "IncorrectCode"
                /\ budget[LastKey] = last.before - 1
          /\ streak[LastKey] > limit =>
                /\ last.result = "TooManyAttempts"
                /\ budget[LastKey] = 0

\* The call after the limit-th wrong code, refused, with a limit above one.
C2_Witness ==
    /\ IsAuth /\ limit >= 2
    /\ streak[LastKey] = limit + 1
    /\ last.result = "TooManyAttempts"

\* The user of the last call has one authenticator, a TOTP one.
OneTotp(user) ==
    /\ Cardinality({i \in DOMAIN store : store[i].user = user}) = 1
    /\ \E i \in DOMAIN store : store[i].user = user /\ store[i].type = "totp"

\* C3 as stated: with a budget of 3 and one TOTP authenticator, of three
\* calls in a row that do not succeed, the first two answer IncorrectCode
\* and the third TooManyAttempts.
C3_ThirdCallDenied ==
    (IsAuth /\ limit = 3 /\ OneTotp(last.user) /\ last.result # "Success") =>
        /\ streak[LastKey] \in {1, 2} => last.result = "IncorrectCode"
        /\ streak[LastKey] = 3 => last.result = "TooManyAttempts"

\* C3 as amended: with a budget of 3 and one TOTP authenticator, the first
\* three calls in a row with a wrong code answer IncorrectCode, and the
\* fourth answers TooManyAttempts whatever its code.
C3_FourthCallDenied ==
    (IsAuth /\ limit = 3 /\ OneTotp(last.user)) =>
        /\ last.result # "Success" =>
              /\ streak[LastKey] \in {1, 2, 3} <=> last.result = "IncorrectCode"
              /\ streak[LastKey] = 4 <=> last.result = "TooManyAttempts"
        /\ last.before = 0 => last.result = "TooManyAttempts"
        /\ last.result = "Success" => last.before >= 1

\* The fourth call, refused although its code is the authenticator's.
C3_Witness ==
    /\ IsAuth /\ limit = 3 /\ OneTotp(last.user)
    /\ streak[LastKey] = 4
    /\ last.result = "TooManyAttempts"
    /\ Matching(last.user, last.code) # {}

\* C4: a call that answers Success leaves the user's budget full.
C4_SuccessClears ==
    (IsAuth /\ last.result = "Success") =>
        /\ budget[LastKey] = limit
        /\ streak[LastKey] = 0

\* A success that found the budget down to its last unit after failures.
C4_Witness ==
    /\ IsAuth /\ last.result = "Success"
    /\ limit >= 2 /\ last.before = 1
    /\ budget[LastKey] = limit

\* C5: when consume allows, the answer is Success exactly when a row of the
\* user's of a type other than WebAuthn accepts the code, with the first
\* such row in the table's order, and IncorrectCode exactly when none does;
\* validate_code is called on the user's non-WebAuthn rows up to that first
\* row and on no row after it.
C5_FirstMatchWins ==
    (IsAuth /\ last.allowed) =>
        LET M == Matching(last.user, last.code)
            C == Candidates(last.user)
        IN  /\ last.lookups = 1
            /\ last.result = "Success" <=> M # {}
            /\ last.result = "IncorrectCode" <=> M = {}
            /\ M # {} =>
                  /\ last.authenticator = Lowest(M)
                  /\ last.evaluated = {i \in C : i <= Lowest(M)}
            /\ M = {} =>
                  /\ last.authenticator = 0
                  /\ last.evaluated = C

\* A success with a second accepting row after the first, and a WebAuthn or
\* foreign row in the table.
C5_Witness ==
    /\ IsAuth /\ last.result = "Success"
    /\ Cardinality(Matching(last.user, last.code)) = 2
    /\ last.evaluated = {1}

\* A success past a row that is not the user's or is a WebAuthn row.
C5_WitnessSkip ==
    /\ IsAuth /\ last.result = "Success"
    /\ last.authenticator = 2
    /\ 1 \notin Candidates(last.user)

(***************************************************************************)
(* Properties of the WebAuthn forms, under SpecWebAuthn.                   *)
(***************************************************************************)
IsPost == last.op = "webauthn_post"

\* The token is what the server signed for some challenge state.
Signed(tok) ==
    \E st \in ChallengeStates(MaxForms) : tok = Signer_sign(json_dumps(st))

\* clean_signed_state ran: AddWebAuthnForm cleans credential first, and a
\* credential that is not JSON ends the validation there.
StateCleaned(l) == ~(l.flow = "registration" /\ l.fault # "")

\* C6: clean_signed_state gives back the state that was signed, and for a
\* token whose value or signature was replaced it raises the Tampered form
\* error and gives back no state; an empty token gives back no state either.
C6_SignRoundTrip ==
    (IsPost /\ StateCleaned(last)) =>
        /\ \A st \in ChallengeStates(MaxForms) :
              last.token = Signer_sign(json_dumps(st)) =>
                  last.state = st /\ "Tampered" \notin last.errors
        /\ (last.token.sep /\ ~Signed(last.token)) =>
              last.state = NoState /\ "Tampered" \in last.errors
        /\ ~last.token.sep => last.state = NoState

\* A posted token that carries the state of one challenge under the
\* signature of another.
C6_Witness ==
    /\ IsPost /\ StateCleaned(last)
    /\ last.token.sep
    /\ last.token.value = json_dumps([challenge |-> 2])
    /\ last.token.sig = signature(json_dumps([challenge |-> 1]))
    /\ "Tampered" \in last.errors

\* C7: a WebAuthn form posted with a token that does not verify is not
\* valid, has not called complete_authentication or complete_registration,
\* holds no authenticator_data, and has left the rate-limit budget and the
\* Authenticator table as they were, whatever the credential.
C7_Step ==
    (last'.op = "webauthn_post" /\ ~Signed(last'.token)) =>
        /\ ~IsValid(last')
        /\ ~last'.called
        /\ last'.data = 0
        /\ budget' = budget
        /\ store' = store
        /\ verified' = verified

C7_TamperedNoEffect == [][C7_Step]_vars

\* A tampered token posted with a credential the verifier would accept for
\* the challenge the token names.
C7_Witness ==
    /\ IsPost /\ last.token.sep /\ ~Signed(last.token)
    /\ last.credential.kind = "json" /\ last.credential.ok
    /\ json_dumps([challenge |-> last.credential.challenge]) = last.token.value
    /\ ~last.called

C9_PasswordlessPolicy ==
    (IsPost /\ last.flow = "registration" /\ last.credential.kind = "json") =>
        LET unsupported == last.passwordless /\ ~last.credential.user_verified
            accepted == /\ Signed(last.token)
                        /\ last.credential.challenge = last.state.challenge
                        /\ last.credential.ok
        IN  /\ "PasswordlessUnsupported" \in last.errors <=> unsupported
            /\ unsupported => ~IsValid(last)
            /\ ~last.passwordless => (IsValid(last) <=> accepted)

\* Passwordless asked for with a credential that is not user verified and
\* that the verifier accepts for the token's challenge.
C9_Witness ==
    /\ IsPost /\ last.flow = "registration"
    /\ last.passwordless /\ ~last.credential.user_verified
    /\ last.called /\ last.data # 0
    /\ last.errors = {"PasswordlessUnsupported"}

(***************************************************************************)
(* Properties of TOTP enrollment (ActivateTOTPForm), under SpecEnroll.     *)
(***************************************************************************)
\* C10: a clean_code of the enrollment form that fails, with IncorrectCode
\* or UnverifiedEmail, replaces the pending secret by a newly generated one,
\* which the form then shows; one that succeeds generates nothing; and
\* AuthenticateForm.clean_code changes no secret, pending or stored.
C10_Step ==
    /\ last'.op = "activate_clean" =>
          IF last'.result = "Success"
          THEN /\ pending' = pending
               /\ generated' = generated
               /\ form'.secret = form.secret
          ELSE /\ generated' = generated + 1
               /\ pending' = generated'
               /\ pending' \notin {pending, form.secret}
               /\ form'.secret = pending'
    /\ last'.op = "authenticate" =>
          /\ pending' = pending
          /\ generated' = generated
          /\ store' = store
          /\ form' = form

C10_RegenerateOnFailure == [][C10_Step]_vars

\* An enrollment refused for an unverified address although the code was
\* the secret's: the pending secret is a new one.
C10_Witness ==
    /\ last.op = "activate_clean"
    /\ last.result = "UnverifiedEmail"
    /\ validate_totp_code(last.checked, last.code)
    /\ pending # last.pending_before

\* The number of the user's addresses that are not verified.
Unverified(user) ==
    Cardinality({i \in DOMAIN emails[user] : ~emails[user][i]})

\* C11: the form allows activation (email_verified) exactly when the user
\* has no unverified address; when the user has one, clean_code fails with
\* UnverifiedEmail whatever the code, and it fails so in no other case.
C11_ActivationNeedsVerifiedEmail ==
    /\ form.user \in Users =>
          (form.email_verified <=> Unverified(form.user) = 0)
    /\ last.op = "activate_clean" =>
          (last.result = "UnverifiedEmail" <=> Unverified(last.user) >= 1)

\* A user with a verified and an unverified address is refused with a code
\* that is valid for the pending secret.
C11_Witness ==
    /\ last.op = "activate_clean"
    /\ emails[last.user] = <<TRUE, FALSE>>
    /\ last.result = "UnverifiedEmail"
    /\ validate_totp_code(last.checked, last.code)

C19_Step ==
    /\ form'.user \in Users =>
          /\ form'.secret = pending'
          /\ pending' = generated'
    /\ last'.op = "activate_init" =>
          IF last'.is_bound /\ pending # 0
          THEN pending' = pending /\ generated' = generated
          ELSE generated' = generated + 1
    /\ last'.op = "activate_clean" =>
          /\ last'.checked = pending
          /\ last'.checked = form.secret
          /\ last'.result = "Success" =>
                /\ validate_totp_code(pending, last'.code)
                /\ pending' = pending

\* C19: after every step of enrollment the form's secret is the session's
\* pending secret, which is the one generated last; constructing the bound
\* form keeps the secret that is pending (it generates one only when none
\* is), an unbound form generates a new one; clean_code checks the code
\* against the secret pending when it is called, and succeeds only on a
\* code valid for it, leaving it pending.
C19_FormShowsPendingSecret == [][C19_Step]_vars

\* A code is accepted for the second secret, after the first was replaced,
\* that the first would not have accepted.
C19_Witness ==
    /\ last.op = "activate_clean" /\ last.result = "Success"
    /\ generated = 2
    /\ last.checked = pending
    /\ last.pending_before = 2
    /\ ~validate_totp_code(1, last.code)

(***************************************************************************)
(* Further properties of the WebAuthn forms, under SpecWebAuthn.           *)
(***************************************************************************)
\* C12: cleaning a WebAuthn form never ends in an uncaught exception,
\* whatever the posted token and credential.
C12_NoUncaughtFault == IsPost => last.fault = ""

\* The flow and the user the challenge of the cleaned state was issued for.
IssuedFor(l) == challenges[l.state.challenge]

\* C13: a state that the verifier accepted was issued by the flow it is
\* completed in and, in authentication, for the user it is completed for.
C13_TokenBoundToContext ==
    (IsPost /\ last.called /\ last.data # 0) =>
        /\ IssuedFor(last).flow = last.flow
        /\ last.flow = "authentication" => IssuedFor(last).user = last.user

(***************************************************************************)
(* Further properties of sign-in with a code, under Spec.                  *)
(***************************************************************************)
C14_Step ==
    last'.op = "authenticate" =>
        LET key == RateKey(last'.user)
        IN  /\ \A u \in Users \ {last'.user} :
                  /\ RateKey(u) # key
                  /\ budget'[RateKey(u)] = budget[RateKey(u)]
            /\ last'.allowed <=> budget[key] > 0
            /\ last'.result # "Success" =>
                  budget'[key] = budget[key] - (IF last'.allowed THEN 1 ELSE 0)
            /\ \A k \in Keys : budget'[k] = limit - Min(streak'[k], limit)

\* C14: an authenticate call for a user leaves the budget of every other
\* user as it was, whatever its outcome; whether it is let through depends
\* on the user's budget alone and not on the code, and every budget is the
\* limit less the number of calls made for its user since it was last full.
C14_KeyIsUserOnly == [][C14_Step]_vars

\* alice is let through although bob's budget is used up.
C14_Witness ==
    /\ IsAuth /\ last.user = "alice" /\ last.allowed
    /\ budget[RateKey("bob")] = 0
    /\ budget[RateKey("alice")] > 0

(***************************************************************************)
(* Concurrent sign-in calls, under SpecCalls.                              *)
(***************************************************************************)
\* The calls made for the user, those that consume let through, and whether
\* one of them succeeded.
Entered(user) == {p \in DOMAIN procs : procs[p].user = user}
Passed(user) ==
    {p \in Entered(user) : procs[p].result # "TooManyAttempts"}
Succeeded(user) == \E p \in Entered(user) : procs[p].result = "Success"

\* C15: as long as no call of the user's has succeeded, the calls that
\* consume let through are as many as were made, up to the limit N and
\* never more, the budget is N less their number, and every other call has
\* answered TooManyAttempts, however the calls interleave.
C15_AtMostNPass ==
    \A u \in Users :
        ~Succeeded(u) =>
            /\ Cardinality(Passed(u)) = Min(Cardinality(Entered(u)), limit)
            /\ budget[RateKey(u)] = limit - Cardinality(Passed(u))
            /\ \A p \in Entered(u) \ Passed(u) : procs[p].pc = "done"

\* With a budget of two, two of alice's calls are evaluating at once and a
\* third was refused.
C15_Witness ==
    /\ limit = 2
    /\ Cardinality({p \in Entered("alice") : procs[p].pc = "evaluate"}) = 2
    /\ \E p \in Entered("alice") : procs[p].result = "TooManyAttempts"

\* C16: every token issued so far still passes unsign, however many
\* challenges were issued after it, the form's own included; a form posted
\* with an issued token cleans it to the state it was signed with, and the
\* verifier, when called, judges the credential against that state.
C16_EarlierChallengesStand ==
    /\ \A st \in ChallengeStates(Len(challenges)) :
          ~Signer_unsign(Signer_sign(json_dumps(st))).bad
    /\ (IsPost /\ StateCleaned(last) /\ Signed(last.token)) =>
          LET st == json_loads(last.token.value)
              accepted ==
                  /\ last.credential.challenge = st.challenge
                  /\ last.credential.ok
                  /\ last.flow = "authentication" =>
                        last.credential.cred_id \in get_credentials(store, last.user)
          IN  /\ last.state = st
              /\ "Tampered" \notin last.errors
              /\ last.called => (last.data # 0 <=> accepted)

\* The first token issued is accepted by a form after two more challenges
\* were issued, the form's own being the third.
C16_Witness ==
    /\ IsPost /\ last.called /\ last.data # 0
    /\ last.state.challenge = 1
    /\ Len(challenges) = 3

(***************************************************************************)
(* The rate limiter and the flows that take no code, under SpecFrame.      *)
(***************************************************************************)
\* C17: no step of the WebAuthn forms (a challenge issued, a form cleaned
\* to valid or to not valid, a tampered token) and no step of TOTP
\* enrollment changes the budget of any key: none consumes, none clears.
C17_OnlyCodesAreLimited == [][budget' = budget]_vars

\* A user with one unit of two left is verified by AuthenticateWebAuthnForm
\* and still has one unit.
C17_Witness ==
    /\ IsPost /\ last.flow = "authentication" /\ IsValid(last) /\ last.data # 0
    /\ budget[RateKey(last.user)] = 1
    /\ limit = 2

(***************************************************************************)
(* The end of a lockout, under SpecLive.                                   *)
(***************************************************************************)
C18_Step ==
    last'.op = "authenticate" =>
        LET key == RateKey(last'.user)
        IN  /\ budget[key] = 0 => last'.result = "TooManyAttempts"
            /\ (budget[key] > 0 /\ Matching(last'.user, last'.code) # {}) =>
                  last'.result = "Success"

\* C18: a key whose budget is used up has its window reset in the end and
\* its budget full again; until then every call for it is answered
\* TooManyAttempts, and a call with budget left and a code that one of the
\* user's authenticators accepts is answered Success.
C18_NoPermanentLockout ==
    /\ \A k \in Keys :
          (budget[k] = 0) ~>
              (last.op = "window_reset" /\ last.key = k /\ budget[k] = limit)
    /\ [][C18_Step]_vars

\* The window of a user's used-up budget has run out, and the user has an
\* authenticator that accepts a code.
C18_Witness ==
    /\ limit = 1
    /\ last.op = "window_reset"
    /\ budget[last.key] = limit
    /\ \E u \in Users, c \in Codes : RateKey(u) = last.key /\ Matching(u, c) # {}

=============================================================================
